---- MODULE Spec2Model ----
(***************************************************************************)
(* State-machine model of the two Streamlit pages of the repository:       *)
(*   src/pixel.py  the interactive pixel-art editor (session state, the    *)
(*                 grid -> shapes projection, the shapes -> grid reduction)*)
(*   src/app.py    the image mixer (process_image pipeline)                *)
(* Python floats are modelled as IEEE-754 doubles (53-bit significand,     *)
(* round to nearest even) because the editor's coordinate arithmetic       *)
(* (x * pixel_size, left / pixel_size, int(...)) is done in floats.        *)
(***************************************************************************)
EXTENDS Integers, Sequences, FiniteSets, TLC

VARIABLES
    canvas_size,   \* st.session_state.canvas_size
    canvas_data,   \* st.session_state.canvas_data
    message,       \* st.session_state.message
    rerun,         \* which handler called st.rerun() in the last script run
    runs,          \* number of script runs of the editor page so far
    last,          \* the last script run: its inputs, the state before, its outcome
    mx_pc,         \* process_image: the statement reached
    mx_args,       \* process_image: its arguments
    mx_img         \* process_image: processed_img, as the operations applied

vars == <<canvas_size, canvas_data, message, rerun, runs, last, mx_pc, mx_args, mx_img>>
editorVars == <<canvas_size, canvas_data, message, rerun, runs, last>>
mixerVars == <<mx_pc, mx_args, mx_img>>

(***************************************************************************)
(* Bounds of the model                                                     *)
(***************************************************************************)
\* sizes offered by the model: 8, 12, ..., 8 + 4 * MaxSizeIdx
MaxSizeIdx == 2
\* longest hand-made edit list handed to the reduction
MaxRects == 3
\* number of script runs of the editor page that are explored
MaxRuns == 3

(***************************************************************************)
(* Program constants                                                       *)
(***************************************************************************)
CANVAS_DISPLAY_SIZE == 512
MinSize == 8
SizeStep == 4
DefaultSize == 16

Sizes == {MinSize + SizeStep * i : i \in 0..MaxSizeIdx}

(***************************************************************************)
(* IEEE-754 double arithmetic.  A significand is a natural number below    *)
(* 2^60 held in three limbs of 20 bits, least significant first (TLC's     *)
(* integers are 32 bits wide).  A double is [neg, man, exp] with value     *)
(* (-1)^neg * man * 2^exp and 2^52 <= man < 2^53, or man = 0.              *)
(***************************************************************************)
LimbBase == 1024 * 1024
BigZero == <<0, 0, 0>>
BigOf(n) == <<n % LimbBase, n \div LimbBase, 0>>

RECURSIVE Carry(_, _, _)
Carry(a, i, c) ==
    IF i > 3 THEN <<>>
    ELSE LET v == a[i] + c IN <<v % LimbBase>> \o Carry(a, i + 1, v \div LimbBase)

BigMulSmall(a, k) == Carry(<<a[1] * k, a[2] * k, a[3] * k>>, 1, 0)
BigDouble(a, bit) == Carry(<<2 * a[1], 2 * a[2], 2 * a[3]>>, 1, bit)
BigInc(a) == Carry(a, 1, 1)

BigGeq(a, b) ==
    \/ a = b
    \/ \E i \in 1..3 : a[i] > b[i] /\ \A j \in (i + 1)..3 : a[j] = b[j]

RECURSIVE Borrow(_, _, _, _)
Borrow(a, b, i, br) ==
    IF i > 3 THEN <<>>
    ELSE LET v == a[i] - b[i] - br IN
         IF v < 0 THEN <<v + LimbBase>> \o Borrow(a, b, i + 1, 1)
         ELSE <<v>> \o Borrow(a, b, i + 1, 0)

BigSub(a, b) == Borrow(a, b, 1, 0)

BigHalf(a) ==
    << (a[1] \div 2) + (a[2] % 2) * (LimbBase \div 2),
       (a[2] \div 2) + (a[3] % 2) * (LimbBase \div 2),
       a[3] \div 2 >>

BigOdd(a) == a[1] % 2 = 1
\* bit 52 of the number is bit 12 of the third limb
BigHasBit52(a) == a[3] >= 4096
BigOver53(a) == a[3] >= 8192

FZero == [neg |-> FALSE, man |-> BigZero, exp |-> 0]

RECURSIVE ShiftUp(_, _)
ShiftUp(b, e) == IF BigHasBit52(b) THEN <<b, e>> ELSE ShiftUp(BigDouble(b, 0), e - 1)

\* shift right until the number fits 53 bits, keeping the guard bit g (the
\* last bit shifted out) and the sticky bit s (any earlier bit shifted out)
RECURSIVE ShiftDown(_, _, _, _)
ShiftDown(b, e, g, s) ==
    IF BigOver53(b) THEN ShiftDown(BigHalf(b), e + 1, BigOdd(b), s \/ g)
    ELSE <<b, e, g, s>>

\* the double nearest to (-1)^neg * (b + sticky fraction) * 2^e, ties to even
RoundNearestEven(neg, b, e, sticky) ==
    IF b = BigZero THEN FZero
    ELSE LET d  == ShiftDown(b, e, FALSE, sticky)
             up == d[3] /\ (d[4] \/ BigOdd(d[1]))
             r  == IF up THEN BigInc(d[1]) ELSE d[1]
             n  == IF BigOver53(r) THEN <<BigHalf(r), d[2] + 1>> ELSE ShiftUp(r, d[2])
         IN [neg |-> neg, man |-> n[1], exp |-> n[2]]

\* float(n) for a Python int n, |n| < 2^30 (exact)
IntToFloat(n) == RoundNearestEven(n < 0, BigOf(IF n < 0 THEN -n ELSE n), 0, FALSE)

\* one step of restoring division: st = <<quotient, remainder>>
DivStep(st, d) ==
    LET r2 == BigDouble(st[2], 0)
    IN IF BigGeq(r2, d) THEN <<BigDouble(st[1], 1), BigSub(r2, d)>>
       ELSE <<BigDouble(st[1], 0), r2>>

RECURSIVE DivLoop(_, _, _)
DivLoop(st, d, k) ==
    IF k = 0 THEN st
    ELSE CHOOSE out \in {DivLoop(nx, d, k - 1) : nx \in {DivStep(st, d)}} : TRUE

\* a / b for doubles, b # 0: the quotient of the significands to 55 bits with
\* the remainder as the sticky bit, rounded to nearest even
FDiv(a, b) ==
    IF a.man = BigZero THEN FZero
    ELSE LET ge == BigGeq(a.man, b.man)
             qr == DivLoop(<<IF ge THEN BigOf(1) ELSE BigZero,
                             IF ge THEN BigSub(a.man, b.man) ELSE a.man>>, b.man, 54)
         IN RoundNearestEven(a.neg # b.neg, qr[1], a.exp - b.exp - 54, qr[2] # BigZero)

\* k * f for a Python int k (|k| < 64) and a double f: the int is converted
\* exactly and the exact product is rounded once
FMulInt(k, f) ==
    RoundNearestEven((k < 0) # f.neg, BigMulSmall(f.man, IF k < 0 THEN -k ELSE k),
                     f.exp, FALSE)

RECURSIVE ShiftRight(_, _)
ShiftRight(b, k) == IF k = 0 \/ b = BigZero THEN b ELSE ShiftRight(BigHalf(b), k - 1)

\* Python int(f): truncation toward zero (|f| < 2^30)
PyInt(f) ==
    LET m == ShiftRight(f.man, -f.exp)
        v == m[1] + m[2] * LimbBase
    IN IF f.neg THEN -v ELSE v

(***************************************************************************)
(* Colours, hex strings (sequences of one-character strings)               *)
(***************************************************************************)
White == <<255, 255, 255>>
Red == <<255, 0, 0>>
Blue == <<0, 0, 255>>

LowerHex == <<"0", "1", "2", "3", "4", "5", "6", "7", "8", "9",
              "a", "b", "c", "d", "e", "f">>
UpperHex == <<"0", "1", "2", "3", "4", "5", "6", "7", "8", "9",
              "A", "B", "C", "D", "E", "F">>

\* f'{v:02x}'
Hex02x(v) == <<LowerHex[(v \div 16) + 1], LowerHex[(v % 16) + 1]>>

rgb_to_hex(rgb) == <<"#">> \o Hex02x(rgb[1]) \o Hex02x(rgb[2]) \o Hex02x(rgb[3])

HexChars == {LowerHex[i] : i \in 1..16} \cup {UpperHex[i] : i \in 1..16}
HexTable ==
    [c \in HexChars |->
        IF \E i \in 1..16 : LowerHex[i] = c
        THEN (CHOOSE i \in 1..16 : LowerHex[i] = c) - 1
        ELSE (CHOOSE i \in 1..16 : UpperHex[i] = c) - 1]

\* value of one base-16 digit, -1 when the character is none
HexDigitValue(c) == IF c \in HexChars THEN HexTable[c] ELSE -1

\* Python s[lo:hi] on a sequence, 0-based, clipped to the length
PySlice(s, lo, hi) ==
    LET h == IF hi < Len(s) THEN hi ELSE Len(s)
    IN IF lo >= h THEN <<>> ELSE SubSeq(s, lo + 1, h)

\* Python int(s, 16) for s over the characters used by the model (digits,
\* letters, '#', '(' ...: no sign, blank, underscore or 0x prefix): the value,
\* or -1 where Python raises ValueError (empty string, a non-hex character)
RECURSIVE PyIntBase16(_)
PyIntBase16(s) ==
    IF s = <<>> THEN -1
    ELSE LET d == HexDigitValue(s[Len(s)])
         IN IF d < 0 THEN -1
            ELSE IF Len(s) = 1 THEN d
            ELSE LET hi == PyIntBase16(SubSeq(s, 1, Len(s) - 1))
                 IN IF hi < 0 THEN -1 ELSE 16 * hi + d

(***************************************************************************)
(* Grids: numpy arrays of shape (n, n, 3), 0-based [row][column]           *)
(***************************************************************************)
\* np.full((n, n, 3), 255, dtype=np.uint8)
np_full_white(n) == [y \in 0..(n - 1) |-> [x \in 0..(n - 1) |-> White]]

\* canvas_data.shape[0]
Rows(grid) == Cardinality(DOMAIN grid)

IsSquare(grid, n) ==
    /\ DOMAIN grid = 0..(n - 1)
    /\ \A y \in DOMAIN grid : DOMAIN grid[y] = 0..(n - 1)

(***************************************************************************)
(* Floats that occur: the cell size display_size / size for each size, and *)
(* the positions x * pixel_size of the projected cells                     *)
(***************************************************************************)
PixelSizeTable ==
    [n \in Sizes |-> FDiv(IntToFloat(CANVAS_DISPLAY_SIZE), IntToFloat(n))]

\* pixel_size = display_size / size
PixelSize(n) == PixelSizeTable[n]

CellPositionTable == [n \in Sizes |-> [x \in 0..(n - 1) |-> FMulInt(x, PixelSize(n))]]

\* x * pixel_size
CellPosition(n, x) == CellPositionTable[n][x]

\* positions at which the user's own rectangles are placed (pixels)
UserPixels == {-5, 0, 32, 320, 600}
UserPosition == [p \in UserPixels |-> IntToFloat(p)]

Positions ==
    {UserPosition[p] : p \in UserPixels} \cup
    UNION {{CellPosition(n, x) : x \in 0..(n - 1)} : n \in Sizes}

\* v / pixel_size for every position v and every size
QuotientTable == [n \in Sizes |-> [v \in Positions |-> FDiv(v, PixelSize(n))]]

CoordTable == [n \in Sizes |-> [v \in Positions |-> PyInt(QuotientTable[n][v])]]

\* int(v / pixel_size) with pixel_size = CANVAS_DISPLAY_SIZE / n
Coord(v, n) == CoordTable[n][v]

(***************************************************************************)
(* Grid -> shapes projection                                               *)
(***************************************************************************)
ProjectedRect(canvas, size, y, x) ==
    [type |-> "rect",
     left |-> CellPosition(size, x),
     top |-> CellPosition(size, y),
     width |-> PixelSize(size),
     height |-> PixelSize(size),
     fill |-> rgb_to_hex(canvas[y][x]),
     stroke |-> "#DDDDDD",
     strokeWidth |-> 1,
     selectable |-> FALSE,
     evented |-> FALSE]

\* the objects list: for y in range(size): for x in range(size): append
create_initial_drawing_json(canvas, display_size) ==
    LET size == Rows(canvas)
    IN [objects |-> [i \in 1..(size * size) |->
                        ProjectedRect(canvas, size, (i - 1) \div size, (i - 1) % size)],
        background |-> "#FFFFFF"]

(***************************************************************************)
(* Shapes -> grid reduction (the body of the canvas handler)               *)
(***************************************************************************)
\* [int(hex_color[i:i+2], 16) for i in (1, 3, 5)]
ParseFill(hex_color) ==
    <<PyIntBase16(PySlice(hex_color, 1, 3)),
      PyIntBase16(PySlice(hex_color, 3, 5)),
      PyIntBase16(PySlice(hex_color, 5, 7))>>

\* a slip: a cell that already holds a colour is not overwritten
StoreCellFirstWins(acc, n, y_coord, x_coord, rgb) ==
    IF 0 <= y_coord /\ y_coord < n /\ 0 <= x_coord /\ x_coord < n
       /\ acc[y_coord][x_coord] = White
    THEN [acc EXCEPT ![y_coord][x_coord] = rgb]
    ELSE acc

\* the assignment new_data[y_coord, x_coord] = rgb under its range test
StoreCell(acc, n, y_coord, x_coord, rgb) ==
    IF 0 <= y_coord /\ y_coord < n /\ 0 <= x_coord /\ x_coord < n
    THEN [acc EXCEPT ![y_coord][x_coord] = rgb]
    ELSE acc

\* a slip: the type test is dropped and every object is reduced as a rect
ReduceStepAnyType(res, obj, n) ==
    IF res.err THEN res
    ELSE LET x_coord == Coord(obj.left, n)
             y_coord == Coord(obj.top, n)
             rgb == ParseFill(obj.fill)
         IN IF \E k \in 1..3 : rgb[k] < 0
            THEN [err |-> TRUE, data |-> res.data]
            ELSE [err |-> FALSE, data |-> StoreCell(res.data, n, y_coord, x_coord, rgb)]

\* one iteration of "for obj in objects"; res = [err, data]
ReduceStep(res, obj, n) ==
    IF res.err \/ obj.type # "rect" THEN res
    ELSE LET x_coord == Coord(obj.left, n)
             y_coord == Coord(obj.top, n)
             rgb == ParseFill(obj.fill)
         IN IF \E k \in 1..3 : rgb[k] < 0
            THEN [err |-> TRUE, data |-> res.data]
            ELSE [err |-> FALSE, data |-> StoreCell(res.data, n, y_coord, x_coord, rgb)]

\* "for obj in objects", evaluated in runs of 16 iterations so that the
\* evaluation never nests more than Len(objects) / 16 + 16 deep; every
\* intermediate new_data is computed before the next iteration starts
RECURSIVE ReduceRun(_, _, _, _, _)
ReduceRun(res, objects, i, hi, n) ==
    IF i > hi THEN res
    ELSE CHOOSE out \in {ReduceRun(nx, objects, i + 1, hi, n) :
                            nx \in {ReduceStep(res, objects[i], n)}} : TRUE

RECURSIVE ReduceLoop(_, _, _, _)
ReduceLoop(res, objects, i, n) ==
    IF i > Len(objects) THEN res
    ELSE LET hi == IF i + 15 < Len(objects) THEN i + 15 ELSE Len(objects)
         IN CHOOSE out \in {ReduceLoop(nx, objects, hi + 1, n) :
                               nx \in {ReduceRun(res, objects, i, hi, n)}} : TRUE

\* a slip: the loop writes into the stored grid instead of a fresh white one
ReduceIntoStored(objects, n) ==
    ReduceLoop([err |-> FALSE,
                data |-> IF IsSquare(canvas_data, n) THEN canvas_data
                         ELSE np_full_white(n)], objects, 1, n)

\* new_data after the loop; err when int(..., 16) raised ValueError
Reduce(objects, n) ==
    ReduceLoop([err |-> FALSE, data |-> np_full_white(n)], objects, 1, n)


(***************************************************************************)
(* Uploaded files and pixelation import                                    *)
(***************************************************************************)
NoFile == [kind |-> "none"]
CorruptFile == [kind |-> "corrupt"]
SolidRedImage == [kind |-> "image", w |-> 1, h |-> 1, px |-> <<<<Red>>>>]
CheckerImage ==
    [kind |-> "image", w |-> 2, h |-> 2, px |-> <<<<White, Blue>>, <<Blue, Red>>>>]
Images == {SolidRedImage, CheckerImage}
UploadedFiles == {NoFile, CorruptFile} \cup Images

\* img.resize((size, size), NEAREST): output pixel (y, x) is the source pixel
\* under its centre, floor((x + 1/2) * w / size); px is 1-based
apply_pixelation(img, size) ==
    [y \in 0..(size - 1) |-> [x \in 0..(size - 1) |->
        img.px[(((2 * y + 1) * img.h) \div (2 * size)) + 1]
              [(((2 * x + 1) * img.w) \div (2 * size)) + 1]]]

(***************************************************************************)
(* What the canvas component reports                                       *)
(***************************************************************************)
FillRedUpper == <<"#", "F", "F", "0", "0", "0", "0">>
FillBlue == <<"#", "0", "0", "0", "0", "f", "f">>
FillFiveDigits == <<"#", "f", "f", "0", "0", "0">>
FillNotHex == <<"#", "g", "g", "0", "0", "0", "0">>

\* an object drawn by the user at pixel (l, t)
UserObject(type, l, t, fill) ==
    [type |-> type,
     left |-> UserPosition[l],
     top |-> UserPosition[t],
     width |-> UserPosition[32],
     height |-> UserPosition[32],
     fill |-> fill,
     stroke |-> fill,
     strokeWidth |-> 1,
     selectable |-> TRUE,
     evented |-> TRUE]

RedAt32 == UserObject("rect", 32, 32, FillRedUpper)
BlueAt32 == UserObject("rect", 32, 32, FillBlue)
BlueLeftOfCanvas == UserObject("rect", -5, 0, FillBlue)
RedRightOfCanvas == UserObject("rect", 600, 0, FillRedUpper)
FiveDigitsAt320 == UserObject("rect", 320, 0, FillFiveDigits)
NotHexAt0 == UserObject("rect", 0, 32, FillNotHex)
BlueCircle == UserObject("circle", 32, 32, FillBlue)
NotHexCircle == UserObject("circle", 0, 32, FillNotHex)

Palette == {RedAt32, BlueAt32, BlueLeftOfCanvas, RedRightOfCanvas,
            FiveDigitsAt320, NotHexAt0, BlueCircle, NotHexCircle}

ListsUpTo(S, k) == UNION {[1..m -> S] : m \in 0..k}

\* canvas_result.json_data: None, or a dict with its 'objects' list
NoJson == [none |-> TRUE, objects |-> <<>>]
Json(objects) == [none |-> FALSE, objects |-> objects]

ToolModes == {"Draw", "Eraser"}

(***************************************************************************)
(* The editor page: one action per script run                             *)
(***************************************************************************)
NoRun ==
    [op |-> "none", size_before |-> 0, data_before |-> <<>>, message_before |-> <<>>,
     rerun_before |-> "none", new_size |-> 0, file |-> NoFile, json |-> NoJson,
     outcome |-> "none", new_data |-> <<>>]

RunRecord(op, new_size, file, json, outcome, new_data) ==
    [op |-> op, size_before |-> canvas_size, data_before |-> canvas_data,
     message_before |-> message, rerun_before |-> rerun, new_size |-> new_size,
     file |-> file, json |-> json, outcome |-> outcome, new_data |-> new_data]

InitMixer ==
    /\ mx_pc = "idle"
    /\ mx_args = <<>>
    /\ mx_img = <<>>

Init ==
    /\ canvas_size = DefaultSize
    /\ canvas_data = np_full_white(DefaultSize)
    /\ message = <<"start">>
    /\ rerun = "none"
    /\ runs = 0
    /\ last = NoRun
    /\ InitMixer

\* a slip: the blank grid is built before the new size is stored
ApplySizeStale(new_size, uploaded_file) ==
    LET size == IF new_size # canvas_size THEN new_size ELSE canvas_size
    IN /\ rerun = "none"
       /\ runs < MaxRuns
       /\ canvas_size' = size
       /\ IF uploaded_file.kind # "none"
          THEN IF uploaded_file.kind = "image"
               THEN /\ canvas_data' = apply_pixelation(uploaded_file, size)
                    /\ message' = <<"imported", size>>
               ELSE UNCHANGED <<canvas_data, message>>
          ELSE /\ canvas_data' = np_full_white(canvas_size)
               /\ message' = <<"blank", size>>
       /\ rerun' = "apply"
       /\ runs' = runs + 1
       /\ last' = RunRecord("apply", new_size, uploaded_file, NoJson,
                            IF uploaded_file.kind = "corrupt" THEN "error" ELSE "ok", <<>>)
       /\ UNCHANGED mixerVars

\* the script run in which "Apply Size / Import Image" was pressed
ApplySize(new_size, uploaded_file) ==
    LET size == IF new_size # canvas_size THEN new_size ELSE canvas_size
        decoded == uploaded_file.kind = "image"
    IN /\ rerun = "none"
       /\ runs < MaxRuns
       /\ canvas_size' = size
       /\ IF uploaded_file.kind # "none"
          THEN IF decoded
               THEN /\ canvas_data' = apply_pixelation(uploaded_file, size)
                    /\ message' = <<"imported", size>>
               ELSE UNCHANGED <<canvas_data, message>>
          ELSE /\ canvas_data' = np_full_white(size)
               /\ message' = <<"blank", size>>
       /\ rerun' = "apply"
       /\ runs' = runs + 1
       /\ last' = RunRecord("apply", new_size, uploaded_file, NoJson,
                            IF uploaded_file.kind = "corrupt" THEN "error" ELSE "ok", <<>>)
       /\ UNCHANGED mixerVars

\* the script run in which "Reset Canvas to White" was pressed
ResetCanvas ==
    /\ rerun = "none"
    /\ runs < MaxRuns
    /\ canvas_data' = np_full_white(canvas_size)
    /\ message' = <<"reset">>
    /\ rerun' = "reset"
    /\ runs' = runs + 1
    /\ last' = RunRecord("reset", 0, NoFile, NoJson, "ok", <<>>)
    /\ UNCHANGED <<canvas_size, mixerVars>>

\* a script run with no button pressed: the canvas reports json_data
CanvasRun(json_data, tool_mode) ==
    /\ runs < MaxRuns
    /\ runs' = runs + 1
    /\ UNCHANGED <<canvas_size, mixerVars>>
    /\ IF ~json_data.none /\ json_data.objects # <<>>
       THEN LET res == Reduce(json_data.objects, canvas_size)
            IN IF res.err
               THEN /\ UNCHANGED <<canvas_data, message>>
                    /\ rerun' = "none"
                    /\ last' = RunRecord("canvas", 0, NoFile, json_data, "ValueError", <<>>)
               ELSE /\ last' = RunRecord("canvas", 0, NoFile, json_data, "ok", res.data)
                    /\ IF res.data # canvas_data
                       THEN /\ canvas_data' = res.data
                            /\ message' = <<IF tool_mode = "Eraser" THEN "Erased" ELSE "Drew">>
                            /\ rerun' = "canvas"
                       ELSE /\ UNCHANGED <<canvas_data, message>>
                            /\ rerun' = "none"
       ELSE /\ UNCHANGED <<canvas_data, message>>
            /\ rerun' = "none"
            /\ last' = RunRecord("canvas", 0, NoFile, json_data, "skipped", <<>>)

\* the initial drawing handed to the canvas in this run
InitialDrawing == create_initial_drawing_json(canvas_data, CANVAS_DISPLAY_SIZE)

\* the user draws at most one object on top of the initial drawing
EditPalette == {RedAt32, FiveDigitsAt320}
CanvasReports ==
    {NoJson, Json(<<>>), Json(InitialDrawing.objects)} \cup
    {Json(Append(InitialDrawing.objects, o)) : o \in EditPalette}

Apply == \E n \in Sizes, f \in UploadedFiles : ApplySize(n, f)
Canvas == \E j \in CanvasReports, t \in ToolModes : CanvasRun(j, t)

Next == Apply \/ ResetCanvas \/ Canvas

Spec == Init /\ [][Next]_vars


(***************************************************************************)
(* One script run from any state an import or a resize leaves behind       *)
(***************************************************************************)
StartFiles == {NoFile} \cup Images

InitStep ==
    /\ \E n \in Sizes, f \in StartFiles :
          /\ canvas_size = n
          /\ canvas_data = IF f.kind = "image" THEN apply_pixelation(f, n)
                           ELSE np_full_white(n)
          /\ message = IF f.kind = "image" THEN <<"imported", n>> ELSE <<"blank", n>>
    /\ rerun = "none"
    /\ runs = 0
    /\ last = NoRun
    /\ InitMixer

\* anything the canvas may hand back: nothing, the initial drawing as it is,
\* or a list of up to MaxRects objects
StepReports ==
    {NoJson, Json(InitialDrawing.objects)} \cup
    {Json(l) : l \in ListsUpTo(Palette, MaxRects)}

ApplyOnce == last.op = "none" /\ \E n \in Sizes, f \in UploadedFiles : ApplySize(n, f)
ResetOnce == last.op = "none" /\ ResetCanvas
CanvasOnce ==
    last.op = "none" /\ \E j \in StepReports, t \in ToolModes : CanvasRun(j, t)

NextStep == ApplyOnce \/ ResetOnce \/ CanvasOnce

SpecStep == InitStep /\ [][NextStep]_vars


(***************************************************************************)
(* The mixer page: process_image, one action per statement                *)
(***************************************************************************)
FilterChoices == {"Original", "Sharpen", "Blur", "Contour", "Detail", "Edge Enhance",
                  "Smooth", "Emboss", "Find Edges"}
\* slider values in tenths (0.0 .. 3.0 step 0.1)
Factors == {5, 10}
Angles == {0, 90, 180, 270, 360}

MixerArgs ==
    [filter_choice : FilterChoices, brightness : Factors, color : Factors,
     contrast : Factors, rotate_angle : Angles, mirror_h : BOOLEAN, mirror_v : BOOLEAN]

\* the if / elif chain: the filter applied, or the image as it is
apply_selected_filter(img, filter_name) ==
    IF filter_name = "Blur" THEN Append(img, <<"filter", "BLUR">>)
    ELSE IF filter_name = "Contour" THEN Append(img, <<"filter", "CONTOUR">>)
    ELSE IF filter_name = "Detail" THEN Append(img, <<"filter", "DETAIL">>)
    ELSE IF filter_name = "Edge Enhance" THEN Append(img, <<"filter", "EDGE_ENHANCE">>)
    ELSE IF filter_name = "Sharpen" THEN Append(img, <<"filter", "SHARPEN">>)
    ELSE IF filter_name = "Smooth" THEN Append(img, <<"filter", "SMOOTH">>)
    ELSE IF filter_name = "Emboss" THEN Append(img, <<"filter", "EMBOSS">>)
    ELSE IF filter_name = "Find Edges" THEN Append(img, <<"filter", "FIND_EDGES">>)
    ELSE img

\* a slip: the mirror statement placed before the rotation
StatementAfterSwapped(pc) ==
    CASE pc = "filter" -> "brightness"
      [] pc = "brightness" -> "color"
      [] pc = "color" -> "contrast"
      [] pc = "contrast" -> "mirror"
      [] pc = "mirror" -> "rotate"
      [] pc = "rotate" -> "flip"
      [] pc = "flip" -> "return"

\* the statement that follows pc in process_image
StatementAfter(pc) ==
    CASE pc = "filter" -> "brightness"
      [] pc = "brightness" -> "color"
      [] pc = "color" -> "contrast"
      [] pc = "contrast" -> "rotate"
      [] pc = "rotate" -> "mirror"
      [] pc = "mirror" -> "flip"
      [] pc = "flip" -> "return"

MxStep(pc, img) ==
    /\ mx_pc = pc
    /\ mx_img' = img
    /\ mx_pc' = StatementAfter(pc)
    /\ UNCHANGED <<mx_args, editorVars>>

MxCall ==
    /\ mx_pc = "idle"
    /\ \E a \in MixerArgs : mx_args' = a
    /\ mx_img' = <<>>
    /\ mx_pc' = "filter"
    /\ UNCHANGED editorVars

MxFilter == MxStep("filter", apply_selected_filter(mx_img, mx_args.filter_choice))
MxBrightness == MxStep("brightness", Append(mx_img, <<"brightness", mx_args.brightness>>))
MxColor == MxStep("color", Append(mx_img, <<"color", mx_args.color>>))
MxContrast == MxStep("contrast", Append(mx_img, <<"contrast", mx_args.contrast>>))
MxRotate ==
    MxStep("rotate", IF mx_args.rotate_angle # 0
                     THEN Append(mx_img, <<"rotate", mx_args.rotate_angle>>)
                     ELSE mx_img)
MxMirror == MxStep("mirror", IF mx_args.mirror_h THEN Append(mx_img, <<"mirror">>) ELSE mx_img)
MxFlip == MxStep("flip", IF mx_args.mirror_v THEN Append(mx_img, <<"flip">>) ELSE mx_img)
MxReturn ==
    /\ mx_pc = "return"
    /\ mx_pc' = "returned"
    /\ UNCHANGED <<mx_img, mx_args, editorVars>>

NextMixer ==
    \/ MxCall \/ MxFilter \/ MxBrightness \/ MxColor \/ MxContrast
    \/ MxRotate \/ MxMirror \/ MxFlip \/ MxReturn

SpecMixer == Init /\ [][NextMixer]_vars


(***************************************************************************)
(* Properties                                                              *)
(***************************************************************************)
LastObjects == last.json.objects
LastN == last.size_before
Cells(n) == (0..(n - 1)) \X (0..(n - 1))
Reduced == last.op = "canvas" /\ last.outcome = "ok"
Projection(grid) == create_initial_drawing_json(grid, CANVAS_DISPLAY_SIZE).objects
HasColour(grid) == \E y \in DOMAIN grid : \E x \in DOMAIN grid[y] : grid[y][x] # White

\* <<i, row, column>> for every rect of the last edit list, as the handler
\* computes row and column
RectCells ==
    {<<i, Coord(LastObjects[i].top, LastN), Coord(LastObjects[i].left, LastN)>> :
        i \in {k \in 1..Len(LastObjects) : LastObjects[k].type = "rect"}}
InRange(t, n) == 0 <= t[2] /\ t[2] < n /\ 0 <= t[3] /\ t[3] < n

\* C1: a canvas run that is handed exactly the projection of the stored
\* n x n grid reduces it to that same grid, cell for cell.
C1_RoundTrip ==
    (/\ last.op = "canvas"
     /\ IsSquare(last.data_before, LastN)
     /\ last.json = Json(Projection(last.data_before)))
    => (last.outcome = "ok" /\ last.new_data = last.data_before)

\* C2: the stored grid always has canvas_size rows and canvas_size columns.
C2_GridMatchesSize == IsSquare(canvas_data, canvas_size)

\* C3: pressing Apply Size / Import Image with a file that cannot be decoded
\* leaves canvas_size, canvas_data and message as they were.
C3_FailedImportKeepsState ==
    (last.op = "apply" /\ last.file.kind = "corrupt")
    => (/\ canvas_size = last.size_before
        /\ canvas_data = last.data_before
        /\ message = last.message_before)

\* '#' followed by exactly six hexadecimal digits
WellFormedFill(f) == Len(f) = 7 /\ f[1] = "#" /\ \A i \in 2..7 : f[i] \in HexChars

\* C4: when some rect of the edit list has a fill that is not '#' and six
\* hexadecimal digits, the reduction fails and the stored grid is unchanged.
C4_MalformedFillFails ==
    (/\ last.op = "canvas"
     /\ \E i \in 1..Len(LastObjects) :
           LastObjects[i].type = "rect" /\ ~WellFormedFill(LastObjects[i].fill))
    => (/\ last.outcome = "ValueError"
        /\ canvas_data = last.data_before
        /\ message = last.message_before)

\* math.floor of a double
PyFloor(f) ==
    LET t == PyInt(f) IN IF f.neg /\ IntToFloat(t) # f THEN t - 1 ELSE t
FloorTable == [n \in Sizes |-> [v \in Positions |-> PyFloor(QuotientTable[n][v])]]
\* floor(v / (D / n))
FloorCoord(v, n) == FloorTable[n][v]

\* C5: a cell of the reduced grid is coloured only by a rect whose floored
\* column and row are that cell; a rect whose floored column or row is
\* negative or >= n (so any rect with a negative left or top) colours nothing.
C5_OnlyFlooredCellsColoured ==
    Reduced =>
        \A c \in Cells(LastN) :
            last.new_data[c[1]][c[2]] # White =>
                \E i \in 1..Len(LastObjects) :
                    /\ LastObjects[i].type = "rect"
                    /\ FloorCoord(LastObjects[i].top, LastN) = c[1]
                    /\ FloorCoord(LastObjects[i].left, LastN) = c[2]

\* C6: in the reduced grid a cell holds the colour of the last rect of the
\* edit list that maps to it.
C6_LastRectWins ==
    Reduced =>
        LET rc == RectCells
        IN \A t \in rc :
              (/\ InRange(t, LastN)
               /\ ~\E u \in rc : u[1] > t[1] /\ u[2] = t[2] /\ u[3] = t[3])
              => last.new_data[t[2]][t[3]] = ParseFill(LastObjects[t[1]].fill)

C6_Witness ==
    /\ Reduced
    /\ Len(LastObjects) = 3
    /\ LastObjects[1] = RedAt32 /\ LastObjects[2] = BlueLeftOfCanvas
    /\ LastObjects[3] = BlueAt32
    /\ LET y == Coord(RedAt32.top, LastN)
           x == Coord(RedAt32.left, LastN)
       IN last.new_data[y][x] = Blue

\* C7: the reduced grid is a function of the edit list and n alone: a cell no
\* in-range rect maps to is white, any other cell holds the parsed fill of a
\* rect mapped to it; for n = 16 the single rect at (32, 32) with fill
\* #FF0000 gives (255, 0, 0) at row 1, column 1 and white elsewhere.
C7_ReducedFromWhite ==
    Reduced =>
        /\ IsSquare(last.new_data, LastN)
        /\ LET rc == RectCells
           IN \A c \in Cells(LastN) :
                 LET here == {t \in rc : t[2] = c[1] /\ t[3] = c[2]}
                 IN IF here = {} THEN last.new_data[c[1]][c[2]] = White
                    ELSE \E t \in here :
                            last.new_data[c[1]][c[2]] = ParseFill(LastObjects[t[1]].fill)
        /\ (LastN = 16 /\ LastObjects = <<RedAt32>>)
              => \A c \in Cells(16) :
                    last.new_data[c[1]][c[2]] =
                        IF c = <<1, 1>> THEN <<255, 0, 0>> ELSE <<255, 255, 255>>

C7_Witness ==
    /\ Reduced
    /\ LastN = 16
    /\ LastObjects = <<RedAt32>>
    /\ HasColour(last.data_before)
    /\ last.data_before[0][0] # White
    /\ last.new_data[1][1] = Red
    /\ last.new_data[0][0] = White
    /\ canvas_data = last.new_data

\* C8 as stated, for the presses during which nothing raises: pressing Apply
\* Size / Import Image with a requested size different from the current one
\* gives an all-white grid of that size and sets the declared size to it.
C8_ResizeGivesWhite ==
    (last.op = "apply" /\ last.new_size # last.size_before /\ last.outcome = "ok")
    => (/\ canvas_size = last.new_size
        /\ IsSquare(canvas_data, last.new_size)
        /\ ~HasColour(canvas_data))

\* C8 amended: the same, when no file is uploaded.
C8_ResizeWithoutFileGivesWhite ==
    (last.op = "apply" /\ last.new_size # last.size_before /\ last.file.kind = "none")
    => (/\ canvas_size = last.new_size
        /\ IsSquare(canvas_data, last.new_size)
        /\ ~HasColour(canvas_data))

C8_Witness ==
    /\ last.op = "apply"
    /\ last.new_size # last.size_before
    /\ last.file.kind = "none"
    /\ HasColour(last.data_before)
    /\ canvas_size = last.new_size
    /\ ~HasColour(canvas_data)

\* the stages in the order the claim lists them
StageOrder == <<"filter", "brightness", "color", "contrast", "rotate", "mirror", "flip">>
StageRank(name) == CHOOSE k \in 1..7 : StageOrder[k] = name
EightFilters == {"Blur", "Contour", "Detail", "Edge Enhance", "Sharpen", "Smooth",
                 "Emboss", "Find Edges"}
Applied(name) == \E k \in 1..Len(mx_img) : mx_img[k][1] = name
MxStarted == mx_pc # "idle"
\* the statement named stage has been passed
Passed(stage) ==
    /\ MxStarted
    /\ \/ mx_pc \in {"return", "returned"}
       \/ StageRank(mx_pc) > StageRank(stage)

\* C9: process_image applies filter, brightness, color, contrast, rotation,
\* mirror, flip in that order, each at most once; the filter only for one of
\* the eight known names, the rotation exactly when the angle is not 0, the
\* mirror and the flip exactly when their flag is set.
C9_StagesInOrder ==
    /\ \A j, k \in 1..Len(mx_img) :
          j < k => StageRank(mx_img[j][1]) < StageRank(mx_img[k][1])
    /\ \A stage \in {StageOrder[k] : k \in 1..7} :
          Applied(stage) => Passed(stage)
    /\ Passed("filter") => (Applied("filter") <=> mx_args.filter_choice \in EightFilters)
    /\ Passed("brightness") => Applied("brightness")
    /\ Passed("color") => Applied("color")
    /\ Passed("contrast") => Applied("contrast")
    /\ Passed("rotate") => (Applied("rotate") <=> mx_args.rotate_angle # 0)
    /\ Passed("mirror") => (Applied("mirror") <=> mx_args.mirror_h)
    /\ Passed("flip") => (Applied("flip") <=> mx_args.mirror_v)

C9_Witness ==
    /\ mx_pc = "returned"
    /\ mx_args.filter_choice = "Emboss"
    /\ mx_args.rotate_angle = 360
    /\ mx_args.mirror_h /\ ~mx_args.mirror_v
    /\ mx_img = <<<<"filter", "EMBOSS">>, <<"brightness", mx_args.brightness>>,
                  <<"color", mx_args.color>>, <<"contrast", mx_args.contrast>>,
                  <<"rotate", 360>>, <<"mirror">>>>

\* C10: in the rerun that an edit requested, when the canvas reports the
\* projection of the stored grid, the reduction equals the stored grid and
\* the run changes nothing and requests no further rerun.
C10_EditRerunIsStable ==
    (/\ last.op = "canvas"
     /\ last.rerun_before = "canvas"
     /\ last.json = Json(Projection(last.data_before)))
    => (/\ last.outcome = "ok"
        /\ last.new_data = last.data_before
        /\ canvas_data = last.data_before
        /\ message = last.message_before
        /\ rerun = "none")

\* the last run was a canvas run that reported None or an empty object list
NothingReported == last.op = "canvas" /\ (last.json.none \/ LastObjects = <<>>)
\* the last run was a canvas run that reported at least one object
SomethingReported == last.op = "canvas" /\ ~last.json.none /\ LastObjects # <<>>
RectIndices == {k \in 1..Len(LastObjects) : LastObjects[k].type = "rect"}

\* C11: a canvas run that is handed None or an empty object list leaves
\* canvas_data, canvas_size and message as they were and requests no rerun;
\* in a run that is handed objects, only rects take part in the reduction:
\* it raises exactly when some rect has a fill that does not parse, and a
\* cell of the reduced grid that is not white holds the fill of a rect
\* mapped to it, whatever objects of other types the list holds.
C11_OnlyRectsChangeCells ==
    /\ NothingReported =>
          /\ last.outcome = "skipped"
          /\ canvas_data = last.data_before
          /\ canvas_size = last.size_before
          /\ message = last.message_before
          /\ rerun = "none"
    /\ SomethingReported =>
          (last.outcome = "ValueError" <=>
              \E i \in RectIndices :
                 \E k \in 1..3 : ParseFill(LastObjects[i].fill)[k] < 0)
    /\ Reduced =>
          LET rc == RectCells
          IN \A c \in Cells(LastN) :
                last.new_data[c[1]][c[2]] # White =>
                   \E t \in rc : /\ t[2] = c[1] /\ t[3] = c[2]
                                 /\ last.new_data[c[1]][c[2]] =
                                       ParseFill(LastObjects[t[1]].fill)

C11_Witness ==
    /\ Reduced
    /\ LastN = 16
    /\ LastObjects = <<RedAt32, BlueCircle, NotHexCircle>>
    /\ HasColour(last.data_before)
    /\ last.new_data[1][1] = Red
    /\ \A c \in Cells(16) \ {<<1, 1>>} : last.new_data[c[1]][c[2]] = White
    /\ canvas_data = last.new_data


====
